---- MODULE Spec2Model ----
(***************************************************************************)
(* A model of better_init (include/better_init.hpp) and of the containers  *)
(* its tests convert lists into (tests.cpp).                                *)
(*                                                                         *)
(* A list init<P...> stores one erased address per argument.  to<T>()      *)
(* builds one Reference (proxy) per argument, hands the destination's      *)
(* constructor a pair of Iterators (adapters) over them, and the           *)
(* constructor converts proxies into elements.  The enable_if conditions   *)
(* of the conversion operators and of to<T>() are the guards of the        *)
(* actions below.                                                          *)
(***************************************************************************)
EXTENDS Integers, Sequences, FiniteSets, TLC

(***************************************************************************)
(* Bounds of the model.                                                    *)
(***************************************************************************)
\* The longest argument list init<P...> explored.
MaxArgs == 2
\* The longest list of extra arguments handed to to<T>(extra...).
MaxExtra == 3

\* The most conversions followed of one list.
MaxConversions == 2

(***************************************************************************)
(* Types.  An argument type P_i is written as in CHECKED_LIST_TYPES.       *)
(***************************************************************************)
ArgTypes == {"int", "const int", "int&", "const int&", "nullptr_t", "unique_ptr"}

ElemTypes == {"int", "unique_ptr"}

ExtraTypes == {"int", "long", "allocator"}

\* The destinations of the tests, and std::initializer_list<int>, which every
\* copy-initialization of a vector<int> probes as the parameter of the
\* vector's initializer-list constructor.
DestTypes ==
    {"vector<int>", "vector<unique_ptr>", "ContainerWithoutListCtor",
     "ContainerWithForcedArgs", "IteratorSanityChecker", "initializer_list<int>"}

\* std::is_lvalue_reference<U>
IsLvalueRef(U) == U \in {"int&", "const int&"}

\* std::is_const<std::remove_reference_t<U>>
IsConst(U) == U \in {"const int", "const int&"}

\* std::remove_cv_t<std::remove_reference_t<U>>
RemoveCvRef(U) ==
    CASE U \in {"int", "const int", "int&", "const int&", "int&&", "const int&&"} -> "int"
      [] U \in {"unique_ptr", "unique_ptr&&"} -> "unique_ptr"
      [] U \in {"nullptr_t", "nullptr_t&&"} -> "nullptr_t"
      [] U \in {"Reference", "Reference&", "const Reference&", "Reference&&"} -> "Reference"
      [] OTHER -> U

\* U &&, after reference collapsing: the type static_cast<U &&>(x) has as a
\* forwarded function argument.
ForwardedType(U) ==
    CASE U = "int" -> "int&&"
      [] U = "const int" -> "const int&&"
      [] U = "unique_ptr" -> "unique_ptr&&"
      [] U = "nullptr_t" -> "nullptr_t&&"
      [] OTHER -> U

\* Faulty variant: the argument is not forwarded, every source is an lvalue.
ForwardCategory_NotForwarded(U) == "lvalue"

\* The value category of static_cast<U &&>(x): reference collapsing makes it
\* an lvalue when U is an lvalue reference and an xvalue otherwise.
ForwardCategory(U) == IF IsLvalueRef(U) THEN "lvalue" ELSE "rvalue"

Null == 0

\* All sequences over S of length 0..n.
SeqUpTo(S, n) == UNION {[1..k -> S] : k \in 0..n}

(***************************************************************************)
(* Memory.  Arguments live in the caller's frame, proxies in to()'s frame. *)
(***************************************************************************)
\* Address of the caller's first argument object; objects are one unit apart.
ArgBase == 1
\* Byte address of refs[0] in the frame of to().
RefsBase == 64
\* sizeof(Reference<T>): a void * and a size_t.
RefSize == 16

ArgAddrs == ArgBase .. (ArgBase + MaxArgs - 1)

NoObject == [type |-> "none", val |-> Null, consumed |-> FALSE]

\* The value the caller gives argument i of type U: the tests' 1, 2, 3 for
\* integers, nullptr, and a distinct owned pointer for each unique_ptr.
InitVal(U, i) ==
    CASE RemoveCvRef(U) = "int" -> i
      [] RemoveCvRef(U) = "nullptr_t" -> Null
      [] OTHER -> 40 + i

(***************************************************************************)
(* State.                                                                  *)
(***************************************************************************)
VARIABLES
    P,       \* the list's template arguments P..., one type per argument
    mem,     \* the caller's argument objects, by address
    elems,   \* init::elems, the erased address of each argument
    pc,      \* "list": no conversion running; "ctor": inside the destination's
             \* constructor, called by to(); "done": to() returned
    path,    \* the entry point of the running or finished conversion
    T,       \* the destination type of the conversion
    Q,       \* the types of the extra arguments of to<T>(extra...)
    refs,    \* to()'s local array of Reference<elem_type>
    begin,   \* the constructor's first Iterator parameter
    end,     \* the constructor's second Iterator parameter
    first,   \* the constructor's cursor over [begin, end)
    out,     \* the elements the constructor has built, in order
    built,   \* per argument, how many elements were constructed from it
    iter,    \* IteratorSanityChecker: the local iterator iter
    old,     \* IteratorSanityChecker: iter before the last operator applied to it
    ret,     \* IteratorSanityChecker: the value the last operator returned
    op,      \* IteratorSanityChecker: the last operator applied
    sel,     \* IteratorSanityChecker: the address of the Reference last selected
             \* by * or [], 0 when the last operator selected none
    hack,    \* BETTER_INIT_ALLOCATOR_HACK, fixed when the program is built
    calls,   \* the construct() calls the substituted allocator has received
             \* during the running conversion, in order
    prev     \* the conversions of this list that have returned, in order

vars == <<P, mem, elems, pc, path, T, Q, refs, begin, end, first, out, built,
          iter, old, ret, op, sel, hack, calls, prev>>

ctorVars == <<first, out, built, calls>>
sanityVars == <<iter, old, ret, op, sel>>
callVars == <<path, T, Q, refs, begin, end>>

N == Len(P)

(***************************************************************************)
(* Compile-time predicates.                                                *)
(***************************************************************************)
\* custom::element_type<T>::type, T::value_type by default.
element_type(t) ==
    CASE t = "vector<unique_ptr>" -> "unique_ptr"
      [] OTHER -> "int"

\* The constructors of each destination, as lists of parameter kinds.  "T" is
\* a deduced template parameter (the same type at each of its positions),
\* "InputIt" one that must be an iterator, "InitList" std::initializer_list<E>.
\* Copy and move constructors are left out: no argument list below is a
\* container, and detail::any_init_list converts to initializer lists only,
\* which is what the copy constructor of std::initializer_list<int> takes.
Constructors(t) ==
    CASE t \in {"vector<int>", "vector<unique_ptr>"} ->
            {<<"InputIt", "InputIt">>, <<"InputIt", "InputIt", "Alloc">>,
             <<"InitList">>, <<"InitList", "Alloc">>,
             <<"size_t">>, <<"size_t", "Alloc">>, <<"Alloc">>, <<>>}
      [] t \in {"ContainerWithoutListCtor", "IteratorSanityChecker"} ->
            {<<"T", "T">>}
      [] t = "ContainerWithForcedArgs" ->
            {<<"T", "T", "int", "int", "int">>}
      [] t = "initializer_list<int>" ->
            {<<"InitList">>, <<>>}
      [] t \in {"vector<int, modified_allocator>",
                "vector<unique_ptr, modified_allocator>"} ->
            {<<"InputIt", "InputIt">>, <<"InputIt", "InputIt", "ModAlloc">>,
             <<"InitList">>, <<"InitList", "ModAlloc">>,
             <<"size_t">>, <<"size_t", "ModAlloc">>, <<"ModAlloc">>, <<>>}
      [] OTHER -> {}

\* Whether an argument of type a initializes a parameter of kind p (implicit
\* conversions included: a long converts to an int parameter).
ParamAccepts(p, a) ==
    CASE p = "T" -> TRUE
      [] p = "InputIt" -> a = "Iterator"
      [] p \in {"int", "size_t"} -> a \in {"int", "long"}
      [] p = "Alloc" -> a = "allocator"
      [] p = "ModAlloc" -> a = "modified_allocator"
      [] p = "InitList" -> a = "any_init_list"
      [] OTHER -> FALSE

\* std::is_constructible<t, args...> for a destination type t.
is_constructible(t, args) ==
    \E c \in Constructors(t) :
        /\ Len(c) = Len(args)
        /\ \A i \in 1..Len(c) : ParamAccepts(c[i], args[i])
        /\ \A i, j \in 1..Len(c) : (c[i] = "T" /\ c[j] = "T") => args[i] = args[j]

\* std::is_constructible<E, U &&> for an element type E and an argument type U.
\* An owning pointer is built from nullptr or from a non-const rvalue pointer.
is_constructible_elem(E, U) ==
    CASE E = "int" -> RemoveCvRef(U) = "int"
      [] E = "unique_ptr" -> RemoveCvRef(U) = "nullptr_t" \/ U = "unique_ptr"
      [] OTHER -> FALSE

\* custom::allow_implicit_init<T>
allow_implicit_init(t) == is_constructible(t, <<"any_init_list">>)

\* Faulty variant: the loop returns after looking at the first value.
all_of_FirstOnly(values) == Len(values) = 0 \/ values[1]

\* detail::all_of
all_of(values) == \A i \in 1..Len(values) : values[i]

\* custom::construct<void, T, Iter, P...>::operator() takes part in overload
\* resolution only under its enable_if.
construct_enabled(t, q) == is_constructible(t, <<"Iterator", "Iterator">> \o q)

\* detail::allocator_hack::has_replaceable_allocator<T>: T is a specialization
\* of a class template with a non-final allocator argument that hands out raw
\* pointers, as std::allocator is.
has_replaceable_allocator(t) == t \in {"vector<int>", "vector<unique_ptr>"}

\* detail::allocator_hack::substitute_allocator<T>::type
substitute_allocator(t) ==
    CASE t = "vector<int>" -> "vector<int, modified_allocator>"
      [] t = "vector<unique_ptr>" -> "vector<unique_ptr, modified_allocator>"
      [] OTHER -> t

\* Faulty variant: the primary template of the helper is std::true_type.
constructible_from_iters_Always(t, q) == TRUE

\* detail::constructible_from_iters<T, Iter, P...>
constructible_from_iters(t, q) == construct_enabled(t, q)

\* init<P...>::can_initialize_elem<E>
can_initialize_elem(ps, E) ==
    all_of([i \in 1..Len(ps) |-> is_constructible_elem(E, ps[i])])

\* Faulty variant: the destination's constructor is not looked at.
can_initialize_range_ElemOnly(ps, t, q) == can_initialize_elem(ps, element_type(t))

\* init<P...>::can_initialize_range<T, Q...>
can_initialize_range(ps, t, q) ==
    constructible_from_iters(t, q) /\ can_initialize_elem(ps, element_type(t))

\* Faulty variant: the implicit operator does not ask the hook.
implicit_enabled_NoHook(ps, t) == can_initialize_range(ps, t, <<>>)

\* The enable_if of the implicit operator T.
implicit_enabled(ps, t) == can_initialize_range(ps, t, <<>>) /\ allow_implicit_init(t)

\* The enable_if of the explicit operator T.
explicit_enabled(ps, t) == can_initialize_range(ps, t, <<>>)

\* The enable_if of to<T>(Q...), either overload.
to_enabled(ps, t, q) == can_initialize_range(ps, t, q)

\* Whether custom::construct<void, T, Iter, Q...> is the partial specialization
\* of the allocator hack.
UsesHack(t) == hack /\ has_replaceable_allocator(t)

\* Whether the call custom::construct<void, T, Iter, Q...>{}(begin, end,
\* extra...) in the body of to() compiles, given that the enable_if of to()
\* holds.  With the primary template the call is the very expression
\* constructible_from_iters tested.  The specialization's operator() is not
\* constrained; its exception specification and its body call the primary
\* template for fixed_container, whose operator() is, and a failure there is
\* an error, not a disabled overload.
construct_well_formed(t, q) ==
    UsesHack(t) => construct_enabled(substitute_allocator(t), q)

\* Faulty variant: the conditions of the two overloads are exchanged.
aborting_overload_Swapped(ps) == Len(ps) # 0

\* The enable_if of the aborting overloads of Reference::operator T and of
\* Reference::allocator_hack_construct_at: sizeof...(P) == 0.  The converting
\* overloads carry the negation.
aborting_overload(ps) == Len(ps) = 0

(***************************************************************************)
(* Iterator<T>: a pointer to a Reference, as a byte address.               *)
(***************************************************************************)
\* Iterator(): ref = nullptr
IteratorDefault == [ref |-> 0]

\* operator*: the Reference the iterator points at, by address.
IterDeref(it) == it.ref

\* operator==
IterEq(a, b) == a.ref = b.ref
\* operator!=
IterNe(a, b) == ~IterEq(a, b)
\* operator<, on the addresses cast to uintptr_t
IterLt(a, b) == a.ref < b.ref
\* operator>
IterGt(a, b) == IterLt(b, a)
\* Faulty variant: <= written as <.
IterLe_Strict(a, b) == a.ref < b.ref

\* operator<=
IterLe(a, b) == ~IterLt(b, a)
\* operator>=
IterGe(a, b) == ~IterLt(a, b)

\* operator+=
IterAddAssign(it, n) == [ref |-> it.ref + n * RefSize]
\* operator-=
IterSubAssign(it, n) == [ref |-> it.ref - n * RefSize]

\* operator++(): the iterator after the call and the value returned.
IterPreInc(it) ==
    LET moved == [ref |-> it.ref + RefSize]
    IN  [self |-> moved, ret |-> moved]
\* operator--()
IterPreDec(it) ==
    LET moved == [ref |-> it.ref - RefSize]
    IN  [self |-> moved, ret |-> moved]
\* Faulty variant: the copy is taken after the increment.
IterPostInc_ReturnsMoved(it) == [self |-> IterPreInc(it).self, ret |-> IterPreInc(it).self]

\* operator++(int)
IterPostInc(it) ==
    LET copy == it
    IN  [self |-> IterPreInc(it).self, ret |-> copy]
\* operator--(int)
IterPostDec(it) ==
    LET copy == it
    IN  [self |-> IterPreDec(it).self, ret |-> copy]

\* operator+(Iterator, ptrdiff_t)
IterPlus(it, n) == IterAddAssign(it, n)
\* operator+(ptrdiff_t, Iterator)
IterPlusRev(n, it) == IterAddAssign(it, n)
\* operator-(Iterator, ptrdiff_t)
IterMinus(it, n) == IterSubAssign(it, n)
\* Faulty variant: the addresses are subtracted as integers, giving bytes.
IterDiff_InBytes(a, b) == a.ref - b.ref

\* operator-(Iterator, Iterator): pointer subtraction counts Reference objects.
IterDiff(a, b) == (a.ref - b.ref) \div RefSize
\* operator[]
IterIndex(it, i) == IterDeref(IterPlus(it, i))

\* The Reference object at address p of the array refs.
RefAt(p) == refs[((p - RefsBase) \div RefSize) + 1]

\* Whether p is the address of an element of the array refs.
IsRefAddr(p) ==
    /\ p >= RefsBase
    /\ (p - RefsBase) % RefSize = 0
    /\ ((p - RefsBase) \div RefSize) + 1 \in 1..Len(refs)

(***************************************************************************)
(* Reference<T>: converting a proxy into an element.                       *)
(***************************************************************************)
\* What a read through a pointer of the wrong type may return.
Garbage == {Null, -1}

\* The element type's constructor, called with static_cast<U &&>(obj): the
\* element built and what is left of the source.  Only an owning pointer bound
\* to a non-const rvalue gives its value away; the source counts as consumed
\* whenever it was handed over as an rvalue.
ElemCtor(E, U, obj) ==
    LET steals == /\ E = "unique_ptr"
                  /\ obj.type = "unique_ptr"
                  /\ ForwardCategory(U) = "rvalue"
                  /\ ~IsConst(U)
    IN  [elem |-> IF E = "unique_ptr" /\ obj.type = "nullptr_t" THEN Null ELSE obj.val,
         obj  |-> [type |-> obj.type,
                   val |-> IF steals THEN Null ELSE obj.val,
                   consumed |-> obj.consumed \/ ForwardCategory(U) = "rvalue"]]

\* detail::construct_from_elem<T, U>(ptr): the possible outcomes.  Reading
\* *ptr as a type it does not hold is undefined and may yield anything.
construct_from_elem(E, U, ptr) ==
    LET obj == mem[ptr]
    IN  IF obj.type = RemoveCvRef(U)
        THEN {ElemCtor(E, U, obj)}
        ELSE {[elem |-> g, obj |-> obj] : g \in Garbage}

\* Reference<T>::operator T() of a non-empty list: lambdas[index](target).
ReferenceConvert(E, r) == construct_from_elem(E, P[r.index + 1], r.target)

(***************************************************************************)
(* The list and its conversions.                                           *)
(***************************************************************************)
\* Where the caller's argument i lives: the frame may grow either way.
ArgAddr(up, n, i) == IF up THEN ArgBase + i - 1 ELSE ArgBase + n - i

\* init(P &&... params): elems{&params...}.  The state once the list exists,
\* in a program built with BETTER_INIT_ALLOCATOR_HACK set to h.
InitList(h) ==
    \E ps \in SeqUpTo(ArgTypes, MaxArgs), up \in BOOLEAN :
        /\ P = ps
        /\ elems = [i \in 1..Len(ps) |-> ArgAddr(up, Len(ps), i)]
        /\ mem = [a \in ArgAddrs |->
                    IF \E i \in 1..Len(ps) : ArgAddr(up, Len(ps), i) = a
                    THEN LET i == CHOOSE i \in 1..Len(ps) : ArgAddr(up, Len(ps), i) = a
                         IN  [type |-> RemoveCvRef(ps[i]),
                              val |-> InitVal(ps[i], i),
                              consumed |-> FALSE]
                    ELSE NoObject]
        /\ pc = "list"
        /\ path = "none"
        /\ T = "none"
        /\ Q = <<>>
        /\ refs = <<>>
        /\ begin = IteratorDefault
        /\ end = IteratorDefault
        /\ first = IteratorDefault
        /\ out = <<>>
        /\ built = [i \in 1..Len(ps) |-> 0]
        /\ iter = IteratorDefault
        /\ old = IteratorDefault
        /\ ret = IteratorDefault
        /\ op = "none"
        /\ sel = 0
        /\ hack = h
        /\ calls = <<>>
        /\ prev = <<>>

\* The default build for C++17 and later (outside MSVC): no allocator hack.
Init == InitList(FALSE)

\* Faulty variant: the loop walks elems backwards.
FillRefs_Reversed == [i \in 1..N |-> [target |-> elems[N + 1 - i], index |-> i - 1]]

\* Faulty variant: every proxy gets the address of the first argument.
FillRefs_FirstTarget == [i \in 1..N |-> [target |-> elems[1], index |-> i - 1]]

\* Faulty variant: the indices are counted from one.
FillRefs_IndexFromOne == [i \in 1..N |-> [target |-> elems[i], index |-> i]]

\* The loop of to() that fills refs: refs[i].target = elems[i], refs[i].index = i.
FillRefs == [i \in 1..N |-> [target |-> elems[i], index |-> i - 1]]

\* begin.ref = refs
RangeBegin == [ref |-> RefsBase]

\* end.ref = refs + sizeof...(P)
RangeEnd == [ref |-> RefsBase + N * RefSize]

\* custom::construct{}(b, e, extra...): T(b, e, extra...) starts running.
construct(b, e) ==
    /\ begin' = b
    /\ end' = e
    /\ first' = b
    /\ iter' = b
    /\ old' = b
    /\ ret' = b
    /\ op' = "none"
    /\ sel' = 0
    /\ out' = <<>>
    /\ built' = [i \in 1..N |-> 0]
    /\ calls' = <<>>
    /\ pc' = "ctor"

\* Faulty variant: the empty overload points its iterators at a refs array.
Sentinel_AtRefs == [ref |-> RefsBase]

\* Iterator<elem_type>{}, each of the two arguments of the empty overload.
Sentinel == IteratorDefault

\* to<T>(extra...) of an empty list: two default-constructed iterators.
to_empty(t, q, via) ==
    /\ pc = "list"
    /\ N = 0
    /\ to_enabled(P, t, q)
    /\ construct_well_formed(t, q)
    /\ path' = via
    /\ T' = t
    /\ Q' = q
    /\ refs' = <<>>
    /\ construct(Sentinel, Sentinel)
    /\ UNCHANGED <<P, hack, prev, mem, elems>>

\* Faulty variant: building the proxies moves from the arguments.
to_nonempty_MovesArguments(t, q, via) ==
    /\ pc = "list"
    /\ N # 0
    /\ to_enabled(P, t, q)
    /\ construct_well_formed(t, q)
    /\ path' = via
    /\ T' = t
    /\ Q' = q
    /\ refs' = FillRefs
    /\ construct(RangeBegin, RangeEnd)
    /\ mem' = [a \in ArgAddrs |->
                 IF mem[a].type = "none" THEN mem[a]
                 ELSE [mem[a] EXCEPT !.consumed = TRUE]]
    /\ UNCHANGED <<P, hack, prev, elems>>

\* to<T>(extra...) of a non-empty list: proxies, then the iterators over them.
to_nonempty(t, q, via) ==
    /\ pc = "list"
    /\ N # 0
    /\ to_enabled(P, t, q)
    /\ construct_well_formed(t, q)
    /\ path' = via
    /\ T' = t
    /\ Q' = q
    /\ refs' = FillRefs
    /\ construct(RangeBegin, RangeEnd)
    /\ UNCHANGED <<P, hack, prev, mem, elems>>

\* Overload resolution between the two to() templates.
to(t, q, via) == to_empty(t, q, via) \/ to_nonempty(t, q, via)

\* Faulty variant: the implicit operator does not go through to<T>() but
\* hands the destination an empty range itself.
ImplicitTo_OwnRange(t) ==
    /\ implicit_enabled(P, t)
    /\ pc = "list"
    /\ construct_well_formed(t, <<>>)
    /\ path' = "implicit"
    /\ T' = t
    /\ Q' = <<>>
    /\ refs' = <<>>
    /\ construct(Sentinel, Sentinel)
    /\ UNCHANGED <<P, hack, prev, mem, elems>>

\* The implicit operator T, for T = t: return to<T>().
ImplicitTo(t) ==
    /\ implicit_enabled(P, t)
    /\ to(t, <<>>, "implicit")

\* The explicit operator T, for T = t: return to<T>().
ExplicitTo(t) ==
    /\ explicit_enabled(P, t)
    /\ to(t, <<>>, "explicit")

\* The conversion functions of the list that overload resolution considers
\* for a destination t: a copy-initialization (T x = list) sees the implicit
\* operator only, a direct-initialization (T x(list), T(list), static_cast)
\* sees both.
ConversionFunctions(ps, t, direct) ==
    {f \in {"implicit", "explicit"} :
        /\ f = "implicit" => implicit_enabled(ps, t)
        /\ f = "explicit" => (direct /\ explicit_enabled(ps, t))}

\* T x = list: the implicit operator is the only candidate.
CopyInit(t) ==
    /\ ConversionFunctions(P, t, FALSE) = {"implicit"}
    /\ ImplicitTo(t)

\* T x(list): the two operator templates have the same signature and neither
\* is more specialised, so the call is ambiguous, and ill-formed, unless
\* exactly one of them is enabled.
DirectInit(t) ==
    /\ Cardinality(ConversionFunctions(P, t, TRUE)) = 1
    /\ IF "explicit" \in ConversionFunctions(P, t, TRUE)
       THEN ExplicitTo(t)
       ELSE ImplicitTo(t)

\* A conversion of the list to some destination by copy-initialization.
ImplicitConversion ==
    /\ pc = "list"
    /\ \E t \in DestTypes : CopyInit(t)

\* A conversion of the list to some destination by direct-initialization.
ExplicitConversion ==
    /\ pc = "list"
    /\ \E t \in DestTypes : DirectInit(t)

\* A call of to<T>(extra...) by the caller.
ToCall ==
    /\ pc = "list"
    /\ \E t \in DestTypes, q \in SeqUpTo(ExtraTypes, MaxExtra) :
        to(t, q, "to")

(***************************************************************************)
(* The destinations' constructors.                                         *)
(***************************************************************************)
\* Destinations that read [first, last) front to back, one element each.
Reads(t) == t \in {"vector<int>", "vector<unique_ptr>"}

\* Destinations whose constructor body is empty.
Ignores(t) == t \in {"ContainerWithoutListCtor", "ContainerWithForcedArgs"}

\* The argument a proxy refers to.
ArgOf(r) == CHOOSE i \in 1..N : elems[i] = r.target

\* Converting the proxy at address p into an element of type E, by value:
\* the converting overload of Reference::operator T.
Convert(E, p) ==
    /\ ~aborting_overload(P)
    /\ \E res \in ReferenceConvert(E, RefAt(p)) :
          /\ out' = Append(out, res.elem)
          /\ mem' = [mem EXCEPT ![RefAt(p).target] = res.obj]
          /\ built' = [built EXCEPT ![ArgOf(RefAt(p))] = @ + 1]

\* std::vector(first, last): for (; first != last; ++first) emplace_back(*first);
VectorCtorStep ==
    /\ pc = "ctor"
    /\ Reads(T)
    /\ ~UsesHack(T)
    /\ IterNe(first, end)
    /\ Convert(element_type(T), IterDeref(first))
    /\ first' = IterPreInc(first).self
    /\ UNCHANGED <<P, hack, prev, elems, pc, callVars, sanityVars, calls>>

\* Faulty variant: the proxies outlive the call of to().
Return_KeepsRefs ==
    /\ pc' = "done"
    /\ UNCHANGED <<P, hack, prev, mem, elems, callVars, ctorVars, sanityVars>>

\* Faulty variant: returning from to() clears the list's stored addresses.
Return_ForgetsArguments ==
    /\ pc' = "done"
    /\ refs' = <<>>
    /\ elems' = [i \in 1..N |-> 0]
    /\ UNCHANGED <<P, hack, prev, mem, path, T, Q, begin, end, ctorVars, sanityVars>>

\* The end of to(): the container is returned, refs and the iterators die.
Return ==
    /\ pc' = "done"
    /\ refs' = <<>>
    /\ UNCHANGED <<P, hack, prev, mem, elems, path, T, Q, begin, end, ctorVars, sanityVars>>

\* std::vector(first, last) reaches last.
VectorCtorReturn ==
    /\ pc = "ctor"
    /\ Reads(T)
    /\ IterEq(first, end)
    /\ Return

\* ContainerWithoutListCtor(T, T) {} and ContainerWithForcedArgs(T, T, int, int, int) {}
EmptyCtorReturn ==
    /\ pc = "ctor"
    /\ Ignores(T)
    /\ Return

(***************************************************************************)
(* The allocator hack: fixed_container's allocator is modified_allocator,  *)
(* whose construct() builds an element from a proxy in place.              *)
(***************************************************************************)
\* Address of the first element of the storage the container allocated;
\* elements are one unit apart.
HeapBase == 256

\* The argument types of the construct() calls a container makes besides
\* construct(ptr, *first): none to value-initialize, an element to copy or
\* move, a proxy by other references, several to emplace.
ConstructArgTypes == {"const Reference&", "Reference&&", "int&&", "const int&"}

\* detail::allocator_hack::is_reference_class<T>: T derives from ReferenceBase.
is_reference_class(u) == u = "Reference"

\* Faulty variant: const and the reference are not stripped from the argument.
should_wrap_construction_NoCvRef(params) ==
    Len(params) = 1 /\ is_reference_class(params[1])

\* detail::allocator_hack::should_wrap_construction<void, Base, P...>: the
\* specialization matches one argument type whose remove_cv_t<remove_reference_t>
\* is a reference class.
should_wrap_construction(params) ==
    Len(params) = 1 /\ is_reference_class(RemoveCvRef(params[1]))

\* modified_allocator::construct(ptr, params...), called by `by`: the overload
\* of construct_low it selects, and the address and the arguments that
\* overload hands on: construct_low(true_type) to the proxy's
\* allocator_hack_construct_at(*this, ptr), construct_low(false_type) to
\* std::allocator_traits<Base>::construct(base, ptr, params...).
ModifiedConstruct(by, ptr, params) ==
    [by |-> by, ptr |-> ptr, params |-> params,
     route |-> IF should_wrap_construction(params)
               THEN "allocator_hack_construct_at"
               ELSE "Base::construct",
     to_ptr |-> ptr,
     to_params |-> IF should_wrap_construction(params) THEN <<>> ELSE params]

\* detail::allocator_hack::construct_from_elem_at<T, U, A>(alloc, ptr, target):
\* std::allocator_traits<A>::construct(alloc, target, static_cast<U &&>(*ptr)),
\* a second call of modified_allocator::construct, which ends in the element
\* type's constructor running at target.  The possible outcomes.
construct_from_elem_at(E, U, ptr, target) ==
    LET obj == mem[ptr]
    IN  IF obj.type = RemoveCvRef(U)
        THEN {[elem |-> ElemCtor(E, U, obj).elem, obj |-> ElemCtor(E, U, obj).obj,
               call |-> ModifiedConstruct("construct_from_elem_at", target,
                                          <<ForwardedType(U)>>)]}
        ELSE {[elem |-> g, obj |-> obj,
               call |-> ModifiedConstruct("construct_from_elem_at", target,
                                          <<ForwardedType(U)>>)]
                  : g \in Garbage}

\* Reference<T>::allocator_hack_construct_at(alloc, location) of a non-empty
\* list: lambdas[index](alloc, target, location).
ReferenceConstructAt(E, r, location) ==
    construct_from_elem_at(E, P[r.index + 1], r.target, location)

\* The container's construct(location, *first) on the substituted allocator,
\* for the proxy at address p.  A wrapped call builds the element in place;
\* a call handed on to Base builds it from the proxy, by value.
ConstructFromProxy(E, p, location) ==
    LET call == ModifiedConstruct("container", location, <<"const Reference&">>)
    IN  IF call.route = "allocator_hack_construct_at"
        THEN /\ ~aborting_overload(P)
             /\ \E res \in ReferenceConstructAt(E, RefAt(p), call.to_ptr) :
                   /\ out' = Append(out, res.elem)
                   /\ mem' = [mem EXCEPT ![RefAt(p).target] = res.obj]
                   /\ built' = [built EXCEPT ![ArgOf(RefAt(p))] = @ + 1]
                   /\ calls' = calls \o <<call, res.call>>
        ELSE /\ Convert(E, p)
             /\ calls' = Append(calls, call)

\* std::vector(first, last) of fixed_container: the storage for last - first
\* elements is allocated at once, and element k is built by
\* construct(storage + k, *first).
VectorHackStep ==
    /\ pc = "ctor"
    /\ Reads(T)
    /\ UsesHack(T)
    /\ IterNe(first, end)
    /\ ConstructFromProxy(element_type(T), IterDeref(first), HeapBase + Len(out))
    /\ first' = IterPreInc(first).self
    /\ UNCHANGED <<P, hack, prev, elems, pc, callVars, sanityVars>>

\* The most arguments of a construct() call, after the address.
MaxConstructArgs == 2

\* Any other construct(ptr, params...) a container may make on the
\* substituted allocator while it is being built; at most one is followed
\* per conversion.  What Base builds from arguments that are no proxy is not
\* part of the list's conversion: the call is recorded, with the address and
\* the arguments handed on.
OtherConstruct ==
    /\ pc = "ctor"
    /\ Reads(T)
    /\ UsesHack(T)
    /\ \A k \in 1..Len(calls) : calls[k].by # "container, besides the range"
    /\ \E params \in SeqUpTo(ConstructArgTypes, MaxConstructArgs) :
          /\ ~should_wrap_construction(params)
          /\ calls' = Append(calls,
                 ModifiedConstruct("container, besides the range",
                                   HeapBase + Len(out), params))
    /\ UNCHANGED <<P, hack, prev, mem, elems, pc, callVars, first, out, built,
                   sanityVars>>

(***************************************************************************)
(* IteratorSanityChecker(T begin, T end): the operators it applies to its  *)
(* local iterator, and the conversions int(...) of the proxies it selects. *)
(***************************************************************************)
\* The most conversions IteratorSanityChecker makes in one run of the model.
MaxProbeConv == 1

RECURSIVE SumTo(_, _)
SumTo(f, n) == IF n = 0 THEN 0 ELSE f[n] + SumTo(f, n - 1)

\* Whether the iterator may be dereferenced: it lies in [begin, end).
InRange(it) == IterLe(begin, it) /\ IterLt(it, end)

\* Whether the iterator lies in [begin, end].
InRangeOrEnd(it) == IterLe(begin, it) /\ IterLe(it, end)

InSanityChecker == pc = "ctor" /\ T = "IteratorSanityChecker"

\* What an operator on iter leaves behind: iter itself, the value returned
\* and the proxy selected by the * applied to that value, if any.
Applied(name, self, value, selected) ==
    /\ InSanityChecker
    /\ InRangeOrEnd(self)
    /\ old' = iter
    /\ iter' = self
    /\ ret' = value
    /\ op' = name
    /\ sel' = selected
    /\ UNCHANGED <<P, hack, prev, mem, elems, pc, callVars, ctorVars>>

\* The proxy * selects, when the iterator can be dereferenced.
Star(it) == IF InRange(it) THEN IterDeref(it) ELSE 0

\* iter = begin + k
SanityAssign ==
    \E k \in 0..N :
        LET it == IterPlus(begin, k)
        IN  Applied("=", it, it, 0)

\* *++iter
SanityPreInc ==
    /\ InSanityChecker
    /\ LET r == IterPreInc(iter)
       IN  Applied("++pre", r.self, r.ret, Star(r.ret))

\* *--iter
SanityPreDec ==
    /\ InSanityChecker
    /\ LET r == IterPreDec(iter)
       IN  Applied("--pre", r.self, r.ret, Star(r.ret))

\* *iter++
SanityPostInc ==
    /\ InSanityChecker
    /\ LET r == IterPostInc(iter)
       IN  Applied("post++", r.self, r.ret, Star(r.ret))

\* *iter--
SanityPostDec ==
    /\ InSanityChecker
    /\ LET r == IterPostDec(iter)
       IN  Applied("post--", r.self, r.ret, Star(r.ret))

\* iter += n
SanityAddAssign ==
    \E n \in (0 - N)..N :
        LET it == IterAddAssign(iter, n)
        IN  Applied("+=", it, it, 0)

\* iter -= n
SanitySubAssign ==
    \E n \in (0 - N)..N :
        LET it == IterSubAssign(iter, n)
        IN  Applied("-=", it, it, 0)

\* iter[i]
SanityIndex ==
    \E i \in (0 - N)..N :
        /\ InRange(IterPlus(iter, i))
        /\ Applied("[]", iter, IterPlus(iter, i), IterIndex(iter, i))

\* int(...) of the proxy selected last.
SanityConvert ==
    /\ InSanityChecker
    /\ sel # 0
    /\ SumTo(built, N) < MaxProbeConv
    /\ Convert(element_type(T), sel)
    /\ UNCHANGED <<P, hack, prev, elems, pc, callVars, first, sanityVars, calls>>

\* The end of IteratorSanityChecker's constructor.
SanityReturn ==
    /\ InSanityChecker
    /\ Return

Next ==
    \/ ImplicitConversion
    \/ ExplicitConversion
    \/ ToCall
    \/ VectorCtorStep
    \/ VectorCtorReturn
    \/ EmptyCtorReturn
    \/ SanityAssign
    \/ SanityPreInc
    \/ SanityPreDec
    \/ SanityPostInc
    \/ SanityPostDec
    \/ SanityAddAssign
    \/ SanitySubAssign
    \/ SanityIndex
    \/ SanityConvert
    \/ SanityReturn

Spec == Init /\ [][Next]_vars

\* A build with or without the allocator hack (BETTER_INIT_ALLOCATOR_HACK is
\* 1 by default before C++17 and on MSVC from C++20).
InitHack == \E h \in BOOLEAN : InitList(h)

\* The conversions and the destinations' constructors, in either build.
NextHack ==
    \/ ImplicitConversion
    \/ ExplicitConversion
    \/ ToCall
    \/ VectorCtorStep
    \/ VectorHackStep
    \/ VectorCtorReturn
    \/ EmptyCtorReturn
    \/ SanityReturn

SpecHack == InitHack /\ [][NextHack]_vars

\* The same, with the other construct() calls of the containers.
NextAlloc ==
    \/ NextHack
    \/ OtherConstruct

SpecAlloc == InitHack /\ [][NextAlloc]_vars

(***************************************************************************)
(* The list as an object of the caller: a named list can be converted      *)
(* again (the conversion functions are const and take no ownership), and   *)
(* its lifetime ends outside any conversion.                               *)
(***************************************************************************)
\* The caller goes on to another conversion of the same list, as in
\* std::move(list).to<T>() twice.  What the conversion that returned built
\* is kept in prev.
Again ==
    /\ pc = "done"
    /\ Len(prev) < MaxConversions - 1
    /\ prev' = Append(prev, [T |-> T, out |-> out, built |-> built])
    /\ pc' = "list"
    /\ UNCHANGED <<P, hack, mem, elems, callVars, ctorVars, sanityVars>>

\* The end of the list's lifetime: a temporary's at the end of the full
\* expression that converted it, a named list's at the end of its scope.
\* The class has no destructor of its own; the addresses in elems are gone
\* with it.
DestroyList ==
    /\ pc \in {"list", "done"}
    /\ pc' = "destroyed"
    /\ elems' = <<>>
    /\ UNCHANGED <<P, hack, prev, mem, callVars, ctorVars, sanityVars>>

\* Conversions, repeated conversions and the end of the list.
NextReuse ==
    \/ NextHack
    \/ Again
    \/ DestroyList

SpecReuse == InitHack /\ [][NextReuse]_vars

(***************************************************************************)
(* Destinations that convert *first without comparing first with last, as  *)
(* the first statement of IteratorSanityChecker does: handed the range of  *)
(* an empty list, they convert a proxy of init<>.                          *)
(***************************************************************************)
\* detail::abort(): BETTER_INIT_ABORT ends the program.
abort ==
    /\ pc' = "abort"
    /\ UNCHANGED <<P, hack, prev, mem, elems, callVars, ctorVars, sanityVars>>

\* int(*iter++) in IteratorSanityChecker, by the aborting overload of
\* Reference<T>::operator T.
EmptyProxyConvert ==
    /\ InSanityChecker
    /\ aborting_overload(P)
    /\ abort

\* construct(ptr, *first) on the substituted allocator: a wrapped call, by
\* the aborting overload of Reference<T>::allocator_hack_construct_at.
EmptyProxyConstructAt ==
    /\ pc = "ctor"
    /\ UsesHack(T)
    /\ should_wrap_construction(<<"const Reference&">>)
    /\ aborting_overload(P)
    /\ abort

NextAbort ==
    \/ NextHack
    \/ EmptyProxyConvert
    \/ EmptyProxyConstructAt

SpecAbort == InitHack /\ [][NextAbort]_vars

(***************************************************************************)
(* Properties.                                                             *)
(***************************************************************************)
\* A conversion is running or has finished.
Converting == pc \in {"ctor", "done"}

\* The adapters over the run: begin + k for k in 0..N.
Adapter(k) == IterPlus(begin, k)

\* C1: for a list of N >= 1 arguments, the destination's constructor gets a
\* range [begin, end) of length N whose position i converts to the element
\* built from argument i; a destination that reads the range front to back
\* holds, in order, the conversion of each argument, N elements at the end.
C1_ElementsInArgumentOrder ==
    (Converting /\ N >= 1) =>
        /\ IterDiff(end, begin) = N
        /\ pc = "ctor" =>
              \A i \in 0..(N - 1) :
                  ReferenceConvert(element_type(T), RefAt(IterIndex(begin, i)))
                      = construct_from_elem(element_type(T), P[i + 1], elems[i + 1])
        /\ Reads(T) =>
              /\ Len(out) = IterDiff(first, begin)
              /\ \A k \in 1..Len(out) : out[k] = InitVal(P[k], k)
              /\ pc = "done" => Len(out) = N

\* C1 witness: a reference to const and an rvalue, mixed, became 1, 2.
C1_Witness ==
    /\ pc = "done"
    /\ T = "vector<int>"
    /\ P = <<"const int&", "int">>
    /\ out = <<1, 2>>

C3_OneConstructionPerArgument ==
    (Converting /\ Reads(T)) =>
        /\ \A i \in 1..N : built[i] = IF i <= IterDiff(first, begin) THEN 1 ELSE 0
        /\ pc = "done" => (SumTo(built, N) = N /\ \A i \in 1..N : built[i] = 1)

\* C3 witness: two arguments, two constructions, one each.
C3_Witness ==
    /\ pc = "done"
    /\ Reads(T)
    /\ N = 2
    /\ built = <<1, 1>>
    /\ Len(out) = 2

\* C4: a converted argument was forwarded with the value category of its type:
\* an rvalue is handed over as an rvalue and left consumed, the element holding
\* its value (an owning pointer's value is then in the element alone); an
\* lvalue is copied, and keeps its value and is not consumed.
C4_ForwardedByCategory ==
    (Converting /\ Reads(T)) =>
        \A i \in 1..N :
            LET obj == mem[elems[i]]
            IN  IF built[i] = 0
                THEN ~obj.consumed /\ obj.val = InitVal(P[i], i)
                ELSE /\ out[i] = InitVal(P[i], i)
                     /\ IsLvalueRef(P[i]) =>
                            (~obj.consumed /\ obj.val = InitVal(P[i], i))
                     /\ ~IsLvalueRef(P[i]) => obj.consumed
                     /\ P[i] = "unique_ptr" => obj.val = Null

\* C4 witness: nullptr and an owning pointer moved into a vector of owning
\* pointers; the source pointer is left null.
C4_Witness ==
    /\ pc = "done"
    /\ T = "vector<unique_ptr>"
    /\ P = <<"nullptr_t", "unique_ptr">>
    /\ out = <<Null, 42>>
    /\ mem[elems[2]].val = Null
    /\ mem[elems[2]].consumed

\* The offsets k for which a + k is an adapter of the run, a being Adapter(j).
Offsets(j) == (0 - j)..(N - j)

\* C5: over the run of a conversion in progress, distances add up
\* (c - a = (c - b) + (b - a) for a < b < c), a + (b - a) = b, begin + N = end
\* and end - begin = N, n + a = a + n, and a[i] selects the proxy *(a + i)
\* selects, the one i places after a's, for every offset i inside [begin, end).
C5_AdapterArithmetic ==
    pc = "ctor" =>
        /\ \A i, j, k \in 0..N :
              LET a == Adapter(i)
                  b == Adapter(j)
                  c == Adapter(k)
              IN  (IterLt(a, b) /\ IterLt(b, c)) =>
                      /\ IterDiff(c, a) = IterDiff(c, b) + IterDiff(b, a)
                      /\ IterPlus(a, IterDiff(b, a)) = b
        /\ IterPlus(begin, N) = end
        /\ IterDiff(end, begin) = N
        /\ \A j \in 0..N : \A n \in Offsets(j) :
              /\ IterPlusRev(n, Adapter(j)) = IterPlus(Adapter(j), n)
              /\ IterMinus(IterPlus(Adapter(j), n), n) = Adapter(j)
              /\ IterDiff(IterPlus(Adapter(j), n), Adapter(j)) = n
        /\ \A j \in 0..N : \A i \in Offsets(j) :
              InRange(IterPlus(Adapter(j), i)) =>
                  /\ IterIndex(Adapter(j), i) = IterDeref(IterPlus(Adapter(j), i))
                  /\ IsRefAddr(IterIndex(Adapter(j), i))
                  /\ RefAt(IterIndex(Adapter(j), i)) = refs[j + i + 1]

\* C5 witness: IteratorSanityChecker evaluated end[-1] on a run of two proxies
\* and selected the second.
C5_Witness ==
    /\ InSanityChecker
    /\ N = 2
    /\ op = "[]"
    /\ iter = end
    /\ ret = IterMinus(end, 1)
    /\ sel = IterDeref(Adapter(1))
    /\ RefAt(sel).index = 1

\* C6: the relational operators of two adapters of a run agree with their
\* positions: == holds at equal positions alone and != is its negation, a < b
\* means b - a > 0, a > b means b < a, a <= b means not b < a, a >= b means not
\* a < b, and exactly one of a < b, a == b, a > b holds.
C6_RelationalOperators ==
    pc = "ctor" =>
        \A i, j \in 0..N :
            LET a == Adapter(i)
                b == Adapter(j)
            IN  /\ IterEq(a, b) <=> (i = j)
                /\ IterNe(a, b) <=> ~IterEq(a, b)
                /\ IterLt(a, b) <=> (IterDiff(b, a) > 0)
                /\ IterLt(a, b) <=> (i < j)
                /\ IterGt(a, b) <=> IterLt(b, a)
                /\ IterLe(a, b) <=> ~IterLt(b, a)
                /\ IterGe(a, b) <=> ~IterLt(a, b)
                /\ Cardinality({x \in {"<", "==", ">"} :
                        \/ x = "<" /\ IterLt(a, b)
                        \/ x = "==" /\ IterEq(a, b)
                        \/ x = ">" /\ IterGt(a, b)}) = 1

\* C6 witness: IteratorSanityChecker holds two different adapters of one run,
\* iter behind the value it had before.
C6_Witness ==
    /\ InSanityChecker
    /\ op = "-="
    /\ IterLt(iter, old)
    /\ IterGe(old, iter)
    /\ IterNe(iter, old)
    /\ ~IterLe(old, iter)

\* C7: ++ and -- move the adapter by exactly one position; the prefix forms
\* return the moved adapter, the postfix forms the adapter as it was; ++ then
\* -- (or -- then ++) restores the position.
C7_IncrementDecrement ==
    InSanityChecker =>
        /\ op = "++pre" => (IterDiff(iter, old) = 1 /\ ret = iter)
        /\ op = "--pre" => (IterDiff(iter, old) = 0 - 1 /\ ret = iter)
        /\ op = "post++" => (IterDiff(iter, old) = 1 /\ ret = old)
        /\ op = "post--" => (IterDiff(iter, old) = 0 - 1 /\ ret = old)
        /\ \A k \in 0..N :
              LET it == Adapter(k)
              IN  /\ IterPreDec(IterPreInc(it).self).self = it
                  /\ IterPreInc(IterPreDec(it).self).self = it
                  /\ IterPostDec(IterPostInc(it).self).self = it
                  /\ IterPostInc(IterPostDec(it).self).self = it
                  /\ IterDiff(IterPreInc(it).self, it) = 1
                  /\ IterDiff(IterPostDec(it).self, it) = 0 - 1

\* C7 witness: *iter++ at begin selected the first proxy and left iter at
\* begin + 1.
C7_Witness ==
    /\ InSanityChecker
    /\ op = "post++"
    /\ old = begin
    /\ ret = begin
    /\ iter = Adapter(1)
    /\ sel = IterDeref(begin)

\* The argument types of a call T(begin, end).
IterPair == <<"Iterator", "Iterator">>

\* C8: the implicit conversion to T runs only when T's element type is
\* constructible from every argument and the hook allows T, which by default
\* it does exactly when T is constructible from an initializer list; so a
\* destination with a two-iterator constructor and no initializer-list
\* constructor cannot be converted to implicitly, and can explicitly.
C8_ImplicitNeedsHook ==
    /\ path = "implicit" =>
          /\ can_initialize_elem(P, element_type(T))
          /\ allow_implicit_init(T)
    /\ \A t \in DestTypes :
          allow_implicit_init(t) <=> is_constructible(t, <<"any_init_list">>)
    /\ pc = "list" =>
          \A t \in DestTypes :
              /\ ENABLED ImplicitTo(t) =>
                    /\ can_initialize_elem(P, element_type(t))
                    /\ allow_implicit_init(t)
              /\ (/\ is_constructible(t, IterPair)
                  /\ ~is_constructible(t, <<"any_init_list">>)
                  /\ can_initialize_elem(P, element_type(t))) =>
                    (~ENABLED CopyInit(t) /\ ENABLED DirectInit(t))

\* C8 witness: a list of two integers converted implicitly to a vector, while
\* ContainerWithoutListCtor admits the explicit conversion alone.
C8_Witness ==
    /\ path = "implicit"
    /\ pc = "done"
    /\ T = "vector<int>"
    /\ P = <<"int", "int">>
    /\ ~implicit_enabled(P, "ContainerWithoutListCtor")
    /\ explicit_enabled(P, "ContainerWithoutListCtor")

\* C9: the explicit conversion to T (a direct-initialization of T from the
\* list) is available whenever T's element type is constructible from every
\* argument, whatever the implicit-conversion hook reports for T.
C9_AsClaimed ==
    pc = "list" =>
        \A t \in DestTypes :
            can_initialize_elem(P, element_type(t)) => ENABLED DirectInit(t)

\* Destinations every constructor of which wants arguments after the iterators.
RequiresExtra(t) ==
    /\ Constructors(t) # {}
    /\ \A c \in Constructors(t) : Len(c) > 2 /\ c[1] = "T" /\ c[2] = "T"

\* The extra argument types are identical to a constructor's trailing parameters.
ExactMatch(t, q) == \E c \in Constructors(t) : c = <<"T", "T">> \o q

\* Each extra argument initializes the matching trailing parameter of a
\* constructor with as many of them.
ConvertibleMatch(t, q) ==
    \E c \in Constructors(t) :
        /\ Len(c) = Len(q) + 2
        /\ \A i \in 1..Len(q) : ParamAccepts(c[i + 2], q[i])

\* C10 as stated: a destination that requires extra arguments is converted to
\* through to<T>(extra...) alone, and with extra argument types that exactly
\* match a constructor.
C10_AsClaimed ==
    (Converting /\ RequiresExtra(T)) =>
        (path = "to" /\ Q # <<>> /\ ExactMatch(T, Q))

\* C10: a destination that requires extra arguments is converted to through
\* to<T>(extra...) alone: both conversion operators and to<T>() are disabled
\* for it, and to<T>(extra...) is enabled only for extra arguments that each
\* convert to the matching trailing parameter of one of its constructors.
C10_ForcedArgsOnlyThroughTo ==
    /\ (Converting /\ RequiresExtra(T)) =>
          (path = "to" /\ Q # <<>> /\ ConvertibleMatch(T, Q))
    /\ pc = "list" =>
          \A t \in DestTypes :
              RequiresExtra(t) =>
                  /\ ~ENABLED ImplicitTo(t)
                  /\ ~ENABLED ExplicitTo(t)
                  /\ ~ENABLED to(t, <<>>, "to")
                  /\ \A q \in SeqUpTo(ExtraTypes, MaxExtra) :
                        ENABLED to(t, q, "to") => ConvertibleMatch(t, q)

\* C10 witness: to<ContainerWithForcedArgs>(1, 2, 3) ran.
C10_Witness ==
    /\ pc = "done"
    /\ T = "ContainerWithForcedArgs"
    /\ path = "to"
    /\ Q = <<"int", "int", "int">>
    /\ P = <<"int", "int">>

\* Destinations no constructor of which starts with a pair of adapters.
NoRangeConstructor(t) ==
    \A q \in SeqUpTo(ExtraTypes, MaxExtra) : ~is_constructible(t, IterPair \o q)

\* C11: a destination that is not constructible from a pair of adapters is
\* not convertible from the list by any path: neither conversion operator is
\* enabled for it, no copy- or direct-initialization selects one, and to<T>()
\* is disabled; with no constructor starting with a pair of adapters at all,
\* to<T>(extra...) is disabled for every list of extra arguments.  So every
\* conversion without extra arguments has a destination constructible from
\* the pair.
C11_NoRangeConstructorNoConversion ==
    /\ pc = "list" =>
          \A t \in DestTypes :
              /\ ~is_constructible(t, IterPair) =>
                    /\ ~ENABLED ImplicitTo(t)
                    /\ ~ENABLED ExplicitTo(t)
                    /\ ~ENABLED CopyInit(t)
                    /\ ~ENABLED DirectInit(t)
                    /\ ~ENABLED to(t, <<>>, "to")
              /\ NoRangeConstructor(t) =>
                    \A q \in SeqUpTo(ExtraTypes, MaxExtra) : ~ENABLED to(t, q, "to")
    /\ (Converting /\ Q = <<>>) => is_constructible(T, IterPair)

\* C11 witness: a list of two integers was converted to a vector by to<T>(),
\* while neither std::initializer_list<int> nor ContainerWithForcedArgs, whose
\* element type every argument could build, admits any of the three paths.
C11_Witness ==
    /\ pc = "done"
    /\ path = "to"
    /\ T = "vector<int>"
    /\ Q = <<>>
    /\ P = <<"int", "int">>
    /\ \A t \in {"initializer_list<int>", "ContainerWithForcedArgs"} :
          /\ can_initialize_elem(P, element_type(t))
          /\ ~is_constructible(t, IterPair)
          /\ ~implicit_enabled(P, t)
          /\ ~explicit_enabled(P, t)
          /\ ~to_enabled(P, t, <<>>)

\* The extra argument lists to<T>(extra...) is tried with.
ExtraLists == SeqUpTo(ExtraTypes, MaxExtra)

\* C12: convertibility is all-or-nothing and decided before any element is
\* converted.  A conversion runs only for a list every argument of which can
\* build the destination's element type; while a list has an argument that
\* cannot, every path to that destination is disabled, with any extra
\* arguments, and the list has built no element and consumed no argument;
\* for the empty list the condition on the elements holds of every element
\* type.
C12_AllOrNothing ==
    /\ Converting =>
          \A i \in 1..N : is_constructible_elem(element_type(T), P[i])
    /\ pc = "list" =>
          /\ out = <<>>
          /\ \A i \in 1..N : built[i] = 0 /\ ~mem[elems[i]].consumed
          /\ \A t \in DestTypes :
                (\E i \in 1..N : ~is_constructible_elem(element_type(t), P[i])) =>
                    /\ ~ENABLED ImplicitTo(t)
                    /\ ~ENABLED ExplicitTo(t)
                    /\ ~ENABLED CopyInit(t)
                    /\ ~ENABLED DirectInit(t)
                    /\ \A q \in ExtraLists : ~ENABLED to(t, q, "to")
    /\ N = 0 => \A E \in ElemTypes : can_initialize_elem(P, E)

\* C12 witness: the first argument alone would build a vector<int>, the
\* second cannot build an int: no conversion to any destination is enabled
\* and nothing was built or consumed.
C12_Witness ==
    /\ pc = "list"
    /\ P = <<"int", "nullptr_t">>
    /\ to_enabled(<<P[1]>>, "vector<int>", <<>>)
    /\ ~is_constructible_elem("int", P[2])
    /\ \A t \in DestTypes, q \in ExtraLists : ~ENABLED to(t, q, "to")
    /\ ~ENABLED ImplicitConversion
    /\ ~ENABLED ExplicitConversion
    /\ out = <<>>
    /\ \A i \in 1..N : ~mem[elems[i]].consumed

\* A step that converts a proxy of the empty list, by value or in place.
ConvertsEmptyProxy == EmptyProxyConvert \/ EmptyProxyConstructAt

\* A step that constructs nothing from a proxy: a conversion of the list
\* starting or returning.
ListStep ==
    \/ ImplicitConversion
    \/ ExplicitConversion
    \/ ToCall
    \/ VectorCtorReturn
    \/ EmptyCtorReturn
    \/ SanityReturn

\* C13: the abort is reached exactly by converting a proxy of a list of no
\* arguments, by value or in place.  The program is in the aborted state
\* only for an empty list whose conversion was running; a step enters it if
\* and only if it converts a proxy of the empty list; creating the list and
\* starting or finishing a conversion never enter it, and no step of a list
\* of N >= 1 arguments does.  No other failure exists: every proxy of a
\* running conversion refers to an object of the type its dispatch entry
\* reads, so no conversion reads an object as a type it does not hold.
C13_AbortOnlyFromEmptyProxy ==
    /\ [](/\ pc = "abort" => (N = 0 /\ T # "none" /\ out = <<>>)
          /\ N >= 1 => pc # "abort"
          /\ pc = "ctor" =>
                \A i \in 1..Len(refs) :
                    mem[refs[i].target].type = RemoveCvRef(P[refs[i].index + 1]))
    /\ [][/\ (pc # "abort" /\ pc' = "abort") <=> ConvertsEmptyProxy
          /\ ConvertsEmptyProxy => (N = 0 /\ pc = "ctor")
          /\ ListStep => pc' # "abort"
          /\ N >= 1 => pc' # "abort"]_vars

\* C13 witness: the explicit conversion of the empty list to
\* IteratorSanityChecker ended in the abort.
C13_Witness ==
    /\ pc = "abort"
    /\ P = <<>>
    /\ T = "IteratorSanityChecker"
    /\ path = "explicit"
    /\ refs = <<>>
    /\ begin = Sentinel

\* The address of proxy i of the running conversion, i in 0..N-1.
ProxyAddr(i) == RefsBase + i * RefSize

\* C14: while the destination's constructor runs on a list of N >= 1
\* arguments (from its first step on), there are N proxies; proxy i holds
\* index i, within 0..N-1, and the address of argument i, where an object of
\* argument i's type lives, holding argument i's value until it is converted;
\* begin points at proxy 0 and end one past proxy N-1; and converting proxy i
\* is the converter for P_i applied to argument i.
C14_ProxyIndexAndAddress ==
    (pc = "ctor" /\ N >= 1) =>
        /\ Len(refs) = N
        /\ IterDeref(begin) = ProxyAddr(0)
        /\ IterDeref(end) = ProxyAddr(N - 1) + RefSize
        /\ \A i \in 0..(N - 1) :
              /\ IsRefAddr(ProxyAddr(i))
              /\ RefAt(ProxyAddr(i)).index = i
              /\ RefAt(ProxyAddr(i)).index \in 0..(N - 1)
              /\ RefAt(ProxyAddr(i)).target = elems[i + 1]
              /\ \A j \in 0..(N - 1) :
                    i # j => RefAt(ProxyAddr(i)).target # RefAt(ProxyAddr(j)).target
              /\ mem[RefAt(ProxyAddr(i)).target].type = RemoveCvRef(P[i + 1])
              /\ built[i + 1] = 0 =>
                    mem[RefAt(ProxyAddr(i)).target].val = InitVal(P[i + 1], i + 1)
              /\ ReferenceConvert(element_type(T), RefAt(ProxyAddr(i)))
                    = {ElemCtor(element_type(T), P[i + 1], mem[elems[i + 1]])}

\* C14 witness: the constructor of a vector of owning pointers is entered
\* with two proxies, the second for an argument stored below the first.
C14_Witness ==
    /\ pc = "ctor"
    /\ T = "vector<unique_ptr>"
    /\ P = <<"nullptr_t", "unique_ptr">>
    /\ out = <<>>
    /\ first = begin
    /\ refs = <<[target |-> ArgBase + 1, index |-> 0], [target |-> ArgBase, index |-> 1]>>
    /\ ReferenceConvert("unique_ptr", refs[2])
          = {[elem |-> 42, obj |-> [type |-> "unique_ptr", val |-> Null, consumed |-> TRUE]]}

\* A step that converts a proxy into an element, by value or in place.
ConvertsProxy == VectorCtorStep \/ VectorHackStep \/ SanityConvert

\* The arguments as the caller passed them: each of its type, holding its
\* value, not consumed.
Pristine ==
    \A i \in 1..N :
        mem[elems[i]] = [type |-> RemoveCvRef(P[i]), val |-> InitVal(P[i], i),
                         consumed |-> FALSE]

\* C15: only converting a proxy constructs an element or touches an
\* argument.  The list, once constructed, has its arguments as passed and no
\* element; every step that is not the conversion of a proxy (starting a
\* conversion, which builds the proxies and the adapters, every operator
\* applied to an adapter, returning) leaves every argument object as it was
\* and adds no element and no construction; a conversion of a proxy adds
\* exactly one element and touches at most the object its proxy points at.
C15_OnlyConversionTouchesArguments ==
    /\ []((pc = "list" /\ prev = <<>>) => (Pristine /\ out = <<>>))
    /\ [][/\ ~ConvertsProxy =>
                /\ mem' = mem
                /\ Len(out') <= Len(out)
                /\ \A i \in 1..N : built'[i] <= built[i]
          /\ ConvertsProxy =>
                /\ Len(out') = Len(out) + 1
                /\ SumTo(built', N) = SumTo(built, N) + 1
                /\ \E a \in ArgAddrs : \A b \in ArgAddrs \ {a} : mem'[b] = mem[b]]_vars

\* C15 witness: IteratorSanityChecker has moved its adapter, subscripted it
\* and selected a proxy, and both arguments, one an rvalue, are as passed.
C15_Witness ==
    /\ InSanityChecker
    /\ P = <<"int", "int&">>
    /\ op = "[]"
    /\ iter = IterPlus(begin, 1)
    /\ sel = IterDeref(begin)
    /\ Pristine
    /\ out = <<>>
    /\ SumTo(built, N) = 0

\* Whether a construct() call has one argument, a proxy but for const and
\* the reference.
SingleProxyArgument(params) ==
    Len(params) = 1 /\ params[1] \in {"Reference", "Reference&", "Reference&&", "const Reference&"}

\* C16: the substituted allocator's construct hands a call to the proxy's
\* in-place entry point exactly when the call has a single argument whose
\* type is, but for const and the reference, a proxy; every other call (no
\* argument, an argument that is no proxy, several arguments) goes to the
\* original allocator's construct with the same address and the same
\* arguments.  Of every construct() call of a running or finished conversion.
C16_ConstructRouting ==
    /\ \A k \in 1..Len(calls) :
          /\ calls[k].route = "allocator_hack_construct_at"
                <=> SingleProxyArgument(calls[k].params)
          /\ calls[k].route \in {"allocator_hack_construct_at", "Base::construct"}
          /\ calls[k].to_ptr = calls[k].ptr
          /\ calls[k].route = "Base::construct" => calls[k].to_params = calls[k].params

\* C16 witness: while a vector is built from two arguments, the allocator
\* has routed the first proxy to the in-place entry point, the nested call
\* with the forwarded argument to Base, and a call with a proxy and a second
\* argument to Base.
C16_Witness ==
    /\ pc = "ctor"
    /\ hack
    /\ T = "vector<int>"
    /\ P = <<"int", "const int&">>
    /\ Len(calls) = 3
    /\ calls[1].params = <<"const Reference&">>
    /\ calls[1].route = "allocator_hack_construct_at"
    /\ calls[2].params = <<"int&&">>
    /\ calls[2].route = "Base::construct"
    /\ calls[2].ptr = calls[1].ptr
    /\ calls[3].params = <<"const Reference&", "int&&">>
    /\ calls[3].route = "Base::construct"
    /\ calls[3].to_params = calls[3].params
    /\ out = <<1>>

\* What the plain path builds: custom::construct's primary template returns
\* T(begin, end, extra...), available when T has that constructor, and a
\* reading container holds the conversion of each argument, in order.
PlainPathBuilds(t, q) == to_enabled(P, t, q) /\ construct_enabled(t, q)

PlainPathResult == [i \in 1..N |-> InitVal(P[i], i)]

\* C17: building a container through the allocator-substitution path and
\* through the plain return-by-value path is equivalent for the same list.
\* Every conversion the plain path performs the build at hand performs too;
\* a finished reading container holds the elements of the plain path, in
\* order, each argument used for exactly one element; and on the substitution
\* path element k was built at the address the allocator was asked for.
C17_AsClaimed ==
    /\ pc = "list" =>
          \A t \in DestTypes, q \in ExtraLists :
              (has_replaceable_allocator(t) /\ PlainPathBuilds(t, q))
                  => ENABLED to(t, q, "to")
    /\ (pc = "done" /\ Reads(T)) =>
          /\ out = PlainPathResult
          /\ \A i \in 1..N : built[i] = 1
          /\ UsesHack(T) =>
                /\ Len(calls) = 2 * N
                /\ \A k \in 1..N :
                      /\ calls[2 * k - 1].route = "allocator_hack_construct_at"
                      /\ calls[2 * k - 1].ptr = HeapBase + k - 1
                      /\ calls[2 * k].by = "construct_from_elem_at"
                      /\ calls[2 * k].route = "Base::construct"
                      /\ calls[2 * k].to_ptr = HeapBase + k - 1

\* A conversion starts: the caller's expression enters to().
StartsConversion == pc = "list" /\ pc' = "ctor"

\* C18: the implicit operator, the explicit operator and to<T>() without
\* extra arguments produce the same result for the same list and the same
\* T.  A conversion started through an operator passes no extra argument and
\* is, but for the name of the path, the step to<T>() takes from the same
\* list: fresh proxies, the adapters bounding them, the construct
\* customization of T called with them; and what a reading container holds
\* at the end is the same on every path.
C18_PathsAgree ==
    /\ []((pc = "done" /\ Reads(T) /\ Q = <<>>) => out = PlainPathResult)
    /\ [][StartsConversion =>
            /\ path' \in {"implicit", "explicit"} => Q' = <<>>
            /\ to(T', Q', path')
            /\ refs' = (IF N = 0 THEN <<>> ELSE FillRefs)
            /\ begin' = (IF N = 0 THEN Sentinel ELSE RangeBegin)
            /\ end' = (IF N = 0 THEN Sentinel ELSE RangeEnd)
            /\ first' = begin'
            /\ out' = <<>>]_vars

\* C18 witness: a copy-initialization of a vector from an lvalue and an
\* rvalue has returned what to<vector<int>>() returns.
C18_Witness ==
    /\ pc = "done"
    /\ path = "implicit"
    /\ T = "vector<int>"
    /\ Q = <<>>
    /\ P = <<"int&", "int">>
    /\ out = PlainPathResult
    /\ out = <<1, 2>>

\* A conversion of a list that has been converted before.
Repeated == prev # <<>> /\ pc \in {"list", "ctor", "done"}

\* What the claim says of the stored addresses, of the order of the visits
\* and of the arguments passed as lvalues.
RepeatFrame ==
    /\ [][pc' # "destroyed" => elems' = elems]_vars
    /\ [][(ConvertsProxy /\ Reads(T)) =>
             built' = [built EXCEPT ![Len(out) + 1] = @ + 1]]_vars
    /\ []((Repeated /\ pc = "ctor" /\ N # 0) => refs = FillRefs)
    /\ [](Repeated =>
            \A i \in 1..N :
                IsLvalueRef(P[i]) =>
                    /\ mem[elems[i]].val = InitVal(P[i], i)
                    /\ ~mem[elems[i]].consumed
                    /\ (pc # "list" /\ Reads(T) /\ Reads(prev[1].T) /\ i <= Len(out))
                          => out[i] = prev[1].out[i])

\* What a repeated conversion finds of the arguments passed as rvalues:
\* consumed, and an owning pointer empty; of all of them, or of those the
\* first conversion built an element from.
RvaluesFound(all) ==
    Repeated =>
        \A i \in 1..N :
            (~IsLvalueRef(P[i]) /\ (all \/ prev[1].built[i] >= 1)) =>
                /\ mem[elems[i]].consumed
                /\ P[i] = "unique_ptr" => mem[elems[i]].val = Null
                /\ (P[i] = "unique_ptr" /\ pc # "list" /\ Reads(T) /\ i <= Len(out))
                      => out[i] = Null

\* C19 as the specification has it: a conversion leaves the stored argument
\* addresses unchanged; a second conversion visits the same arguments in the
\* same order, yields the same elements for arguments passed as lvalues, and
\* finds the arguments passed as rvalues already consumed by the first.
C19_AsClaimed == RepeatFrame /\ []RvaluesFound(TRUE)

\* C19, amended: a conversion leaves the stored argument addresses
\* unchanged; a second conversion visits the same arguments in the same
\* order, yields the same elements for arguments passed as lvalues, and finds
\* already consumed those arguments passed as rvalues that the first
\* conversion built an element from.
C19_SecondConversion == RepeatFrame /\ []RvaluesFound(FALSE)

\* C19 witness: the second conversion of a list of an lvalue and an rvalue
\* to a vector has built the elements of the first; the rvalue was consumed.
C19_Witness ==
    /\ pc = "done"
    /\ prev # <<>>
    /\ prev[1].T = "vector<int>"
    /\ prev[1].out = <<1, 2>>
    /\ T = "vector<int>"
    /\ P = <<"const int&", "int">>
    /\ out = <<1, 2>>
    /\ built = <<1, 1>>
    /\ mem[elems[2]].consumed
    /\ ~mem[elems[1]].consumed

\* Whether proxies exist.
ProxiesExist == refs # <<>>

\* C20: proxies exist only inside a call of to<T>().  They are created when
\* the call starts, one per argument and referring to the list's arguments,
\* stay as they are for the whole run of the destination's constructor, and
\* are destroyed when the call returns; the list is destroyed only outside a
\* call, so that no proxy exists whose list is gone; and between calls the
\* list holds the argument addresses and no proxy.
C20_ProxiesLiveInsideTo ==
    /\ [](ProxiesExist => (pc = "ctor" /\ elems # <<>>))
    /\ [](pc = "ctor" =>
            /\ Len(refs) = N
            /\ \A i \in 1..N : refs[i].target = elems[i] /\ refs[i].target \in ArgAddrs)
    /\ [](pc \in {"list", "done", "destroyed"} =>
            /\ ~ProxiesExist
            /\ \A i \in 1..Len(elems) : elems[i] \in ArgAddrs /\ ~IsRefAddr(elems[i]))
    /\ [][/\ StartsConversion => refs' = FillRefs
          /\ (pc = "ctor" /\ pc' = "ctor") => refs' = refs
          /\ (pc = "ctor" /\ pc' # "ctor") => (pc' = "done" /\ refs' = <<>>)
          /\ pc' = "destroyed" => (pc \in {"list", "done"} /\ ~ProxiesExist)]_vars

\* C20 witness: a list of two arguments was converted to a vector and then
\* destroyed; the proxies of the conversion went when to() returned.
C20_Witness ==
    /\ pc = "destroyed"
    /\ T = "vector<unique_ptr>"
    /\ P = <<"unique_ptr", "nullptr_t">>
    /\ Len(out) = 2
    /\ built = <<1, 1>>
    /\ ~ProxiesExist
    /\ elems = <<>>

====
